---- MODULE Spec2Model ----
(***************************************************************************)
(* Task routing and streaming execution of the multi-agent example:        *)
(* QueryRouter (multi_agent_project/utils/query_router.py) in front of the *)
(* streaming specialist executors TravelPlannerAgentExecutor               *)
(* (examples/travel/agent_executor.py) and CodingAgentExecutor             *)
(* (multi_agent_project/agents/coding_agent.py).                           *)
(*                                                                         *)
(* A request text is a sequence of one-character strings, so that `in` and *)
(* lower() are computed on characters.  An event queue is the sequence of  *)
(* events handed to EventQueue.enqueue_event, in order.                    *)
(***************************************************************************)
EXTENDS Integers, Sequences, FiniteSets, TLC

\* ------------------------------------------------------------------ bounds
\* Most events one agent stream is asked for before it must end or raise.
MaxEvents == 3
\* Most cancel requests made for one task.
MaxCancels == 2
\* Most events each of two concurrent requests takes from its stream.
MaxConcurrentEvents == 2

\* Most images generate_image_tool stores.
MaxImages == 2

\* Most colon-separated fields of a command text.
MaxFields == 4

\* Most words of a request text drawn for the routing specification.
MaxWords == 2

\* ------------------------------------------------------------------ strings
UpperChars ==
  <<"A","B","C","D","E","F","G","H","I","J","K","L","M",
    "N","O","P","Q","R","S","T","U","V","W","X","Y","Z">>

LowerChars ==
  <<"a","b","c","d","e","f","g","h","i","j","k","l","m",
    "n","o","p","q","r","s","t","u","v","w","x","y","z">>

\* str.lower() on one character.
LowerChar(c) ==
  IF \E i \in 1..Len(UpperChars) : UpperChars[i] = c
  THEN LowerChars[CHOOSE i \in 1..Len(UpperChars) : UpperChars[i] = c]
  ELSE c

\* A lower() that leaves every character as it is.
LowerIdentity(s) == s

\* str.lower()
Lower(s) == [i \in 1..Len(s) |-> LowerChar(s[i])]

\* str.startswith in place of `in`.
StartsWith(s, sub) == Len(sub) <= Len(s) /\ SubSeq(s, 1, Len(sub)) = sub

\* Python's `sub in s` on strings.
Contains(s, sub) ==
  \E i \in 0..(Len(s) - Len(sub)) : SubSeq(s, i + 1, i + Len(sub)) = sub

\* ------------------------------------------------------------------ routing
Executors == {"travel", "research", "coding"}

\* QueryRouter.keyword_map, in insertion order (dict iteration order).
KeywordMap ==
  << [keyword |-> <<"t","r","a","v","e","l">>, executor |-> "travel"],
     [keyword |-> <<"t","r","i","p">>, executor |-> "travel"],
     [keyword |-> <<"i","t","i","n","e","r","a","r","y">>, executor |-> "travel"],
     [keyword |-> <<"d","e","s","t","i","n","a","t","i","o","n">>, executor |-> "travel"],
     [keyword |-> <<"v","a","c","a","t","i","o","n">>, executor |-> "travel"],
     [keyword |-> <<"r","e","s","e","a","r","c","h">>, executor |-> "research"],
     [keyword |-> <<"f","i","n","d">>, executor |-> "research"],
     [keyword |-> <<"i","n","f","o","r","m","a","t","i","o","n">>, executor |-> "research"],
     [keyword |-> <<"d","a","t","a">>, executor |-> "research"],
     [keyword |-> <<"a","n","a","l","y","z","e">>, executor |-> "research"],
     [keyword |-> <<"c","o","d","e">>, executor |-> "coding"],
     [keyword |-> <<"p","r","o","g","r","a","m">>, executor |-> "coding"],
     [keyword |-> <<"s","c","r","i","p","t">>, executor |-> "coding"],
     [keyword |-> <<"d","e","v","e","l","o","p">>, executor |-> "coding"],
     [keyword |-> <<"p","y","t","h","o","n">>, executor |-> "coding"] >>

\* The executors in the order of QueryRouter's constructor parameters, which is
\* also the order of their keyword groups in keyword_map.
RegistrationOrder == <<"travel", "research", "coding">>

Rank(e) == CHOOSE i \in 1..Len(RegistrationOrder) : RegistrationOrder[i] = e

\* The number of an executor's keywords that occur in the lower-cased query.
MatchCount(e, q) ==
  Cardinality({i \in 1..Len(KeywordMap) :
                 /\ KeywordMap[i].executor = e
                 /\ Contains(Lower(q), KeywordMap[i].keyword)})

\* The executors with at least one keyword in the query.
Matching(q) == {e \in Executors : MatchCount(e, q) > 0}

\* The priority MultiAgentOrchestrator.create_coordinator gives a specialist:
\* 3 when "research" or "coding" is among its specialties, else 2.
Priority(e) == IF e = "research" \/ e = "coding" THEN 3 ELSE 2

\* A loop without the break: the executor of the last keyword that occurs.
RECURSIVE FirstMatchLast(_, _)
FirstMatchLast(query_lower, i) ==
  IF i > Len(KeywordMap) THEN "none"
  ELSE LET later == FirstMatchLast(query_lower, i + 1)
       IN  IF later # "none" THEN later
           ELSE IF Contains(query_lower, KeywordMap[i].keyword)
                THEN KeywordMap[i].executor
                ELSE "none"

\* The for loop over keyword_map.items(): the executor of the first keyword,
\* from position i on, that occurs in query_lower; "none" when the loop ends
\* with selected_executor still None.
RECURSIVE FirstMatch(_, _)
FirstMatch(query_lower, i) ==
  IF i > Len(KeywordMap) THEN "none"
  ELSE IF Contains(query_lower, KeywordMap[i].keyword)
       THEN KeywordMap[i].executor
       ELSE FirstMatch(query_lower, i + 1)

\* The selection without the fallback of lines 69-71.
SelectExecutorNoDefault(q) == FirstMatch(Lower(q), 1)

\* A fallback to the coding executor.
SelectExecutorDefaultCoding(q) ==
  LET m == FirstMatch(Lower(q), 1)
  IN  IF m = "none" THEN "coding" ELSE m

\* A selection by the number of matching keywords, then by registration order.
SelectExecutorByCount(q) ==
  LET best == {e \in Matching(q) :
                 \A f \in Matching(q) : MatchCount(e, q) >= MatchCount(f, q)}
  IN  IF best = {} THEN "travel"
      ELSE CHOOSE e \in best : \A f \in best : Rank(e) <= Rank(f)

\* selected_executor as QueryRouter.execute has it at line 73.
SelectExecutor(q) ==
  LET m == FirstMatch(Lower(q), 1)
  IN  IF m = "none" THEN "travel" ELSE m

\* ------------------------------------------------------------------ texts
\* An output text is the sequence of its pieces, concatenated by \o: the
\* one-character fragments of a stream and the literal messages of the code,
\* each literal kept as one piece.
NoValidQueryText == <<"No valid query or message provided">>

NoMessageText == <<"No message or query provided">>

ErrorPrefix == <<"An error occurred: ">>

SorryPrefix == <<"Sorry, an error occurred: ">>

CancelText == <<"Cancel not supported">>

\* str(e) of the error an agent's output stream fails with.
StreamErrorText == <<"boom">>

NoQueryText == <<"Error: No query provided.">>

\* The non-empty fragments a stream may yield.
Fragments == { <<"a">>, <<"b">>, <<"c">> }

\* ------------------------------------------------------------------ events
\* TaskArtifactUpdateEvent(contextId, taskId, artifact=new_text_artifact(name, text))
ArtifactEvent(t, name, text) ==
  [kind |-> "artifact", taskId |-> t, contextId |-> t, name |-> name,
   text |-> text, state |-> "none", final |-> FALSE]

\* TaskStatusUpdateEvent(contextId, taskId, status=TaskStatus(state), final=True)
StatusEvent(t, state) ==
  [kind |-> "status", taskId |-> t, contextId |-> t, name |-> "none",
   text |-> <<>>, state |-> state, final |-> TRUE]

\* ------------------------------------------------------------------ streams
\* What one request for the next item of a stream gives: an event
\* {'content', 'done'}, nothing but a consumed chunk ("skip"), the end of the
\* stream ("stop") or an error ("raise").
Yield(c, d) == [kind |-> "yield", content |-> c, done |-> d, msg |-> <<>>]

Skip == [kind |-> "skip", content |-> <<>>, done |-> FALSE, msg |-> <<>>]

Stop == [kind |-> "stop", content |-> <<>>, done |-> FALSE, msg |-> <<>>]

Raise(m) == [kind |-> "raise", content |-> <<>>, done |-> FALSE, msg |-> m]

\* self.model.astream(messages) after n chunks: one more chunk (its content a
\* fragment, or empty), the end of the stream, or an error.
ModelOutcomes(n) ==
  (IF n < MaxEvents THEN {Yield(c, FALSE) : c \in Fragments \cup {<<>>}} ELSE {})
    \cup {Stop, Raise(StreamErrorText)}

\* TravelPlannerAgent.stream(query) after n events: any event, the end of the
\* stream, or an error (the executor contract of the design, section 4.5).
AgentOutcomes(n) ==
  (IF n < MaxEvents
   THEN {Yield(c, d) : c \in Fragments \cup {<<>>}, d \in BOOLEAN}
   ELSE {})
    \cup {Stop, Raise(StreamErrorText)}

\* A stream that lets the model's error through.
CodingStreamReraise(o) ==
  IF o.kind = "yield"
  THEN IF o.content # <<>> THEN Yield(o.content, FALSE) ELSE Skip
  ELSE IF o.kind = "stop" THEN Yield(<<>>, TRUE) ELSE o

\* CodingAgent.stream(query), for a non-empty query: what it yields for one
\* outcome o of model.astream.
CodingStream(o) ==
  IF o.kind = "yield"
  THEN IF o.content # <<>> THEN Yield(o.content, FALSE) ELSE Skip
  ELSE IF o.kind = "stop"
       THEN Yield(<<>>, TRUE)
       ELSE Yield(SorryPrefix \o o.msg, TRUE)

\* The outcomes of the source an executor's agent reads.
SourceOutcomes(executor, n) ==
  IF executor = "coding" THEN ModelOutcomes(n) ELSE AgentOutcomes(n)

\* self.agent.stream(query) as the executor's async for sees it.
AgentStream(executor, o) ==
  IF executor = "coding" THEN CodingStream(o) ELSE o

\* ------------------------------------------------------------------ inputs
Tasks == {"t1", "t2"}

\* Which execute the request handler calls: the router
\* (multi_agent_project/main.py) or a specialist executor itself
\* (examples/main.py).
Entries == {"router", "travel", "coding"}

Queries ==
  { <<>>,
    <<"t","r","i","p">>,
    <<"f","i","n","d">>,
    <<"c","o","d","e">>,
    <<"h","e","l","l","o">> }

\* context.get_user_input() and context.message: without a message the user
\* input is the empty string.
Requests(qs) ==
  {r \in [query : qs, hasMessage : BOOLEAN] : ~r.hasMessage => r.query = <<>>}

Vocabulary ==
  { <<"t","r","i","p">>, <<"T","R","I","P">>, <<"d","a","t","a">>,
    <<"P","y","t","h","o","n">>, <<"d","e","c","o","d","e">>,
    <<"h","e","l","l","o">>, <<"p","l","a","n">>,
    <<"d","e","s","c","r","i","p","t","i","o","n">> }

\* The request texts of the routing scenario, and one whose words hold one
\* research keyword and two coding keywords.
HelpMePlanATrip ==
  <<"h","e","l","p"," ","m","e"," ","p","l","a","n"," ","a"," ","t","r","i","p">>

WriteAProgram ==
  <<"w","r","i","t","e"," ","a"," ","p","r","o","g","r","a","m">>

HelloThere == <<"h","e","l","l","o"," ","t","h","e","r","e">>

FindPythonCode ==
  <<"f","i","n","d"," ","p","y","t","h","o","n"," ","c","o","d","e">>

ScenarioQueries == {HelpMePlanATrip, WriteAProgram, HelloThere, FindPythonCode}

RECURSIVE Join(_)
Join(ws) ==
  IF ws = <<>> THEN <<>>
  ELSE IF Len(ws) = 1 THEN ws[1]
       ELSE ws[1] \o <<" ">> \o Join(Tail(ws))

RouteQueries ==
  {Join(ws) : ws \in UNION {[1..k -> Vocabulary] : k \in 0..MaxWords}}

\* ------------------------------------------------------------------ registry
\* The values of FileAgentConfig the registrations are drawn from (file_types
\* and executor_class play no part in the registration).
AgentNames == {"text_processor_agent", "json_processor_agent"}

Descriptions == {"text files", "json files"}

Ports == {<<8090, 10010>>, <<8091, 10011>>}

FileAgentConfigs ==
  {[name |-> n, description |-> d, port |-> p[1], a2a_port |-> p[2]] :
     n \in AgentNames, d \in Descriptions, p \in Ports}

\* A2AAdapter(agent_executor=executor, name=..., description=..., port=...,
\* a2a_port=..., mailbox=True, seed=f"{config.name}_seed")
Adapter(config, executor) ==
  [agent_executor |-> executor, name |-> config.name,
   description |-> config.description, port |-> config.port,
   a2a_port |-> config.a2a_port, mailbox |-> TRUE,
   seed |-> <<config.name, "_seed">>]

\* A dict is the sequence of its items in insertion order.
HasKey(d, k) == \E i \in 1..Len(d) : d[i].key = k

\* d[k], for a key of d.
DictGet(d, k) == d[CHOOSE i \in 1..Len(d) : d[i].key = k].value

\* d[k] = v: the value of an existing key is replaced where it stands, a new
\* key is added at the end.
DictSet(d, k, v) ==
  IF HasKey(d, k)
  THEN [i \in 1..Len(d) |-> IF d[i].key = k THEN [key |-> k, value |-> v] ELSE d[i]]
  ELSE Append(d, [key |-> k, value |-> v])

\* No call of register_file_agent yet.
NoRegister == [called |-> FALSE]

\* ------------------------------------------------------------------ state
VARIABLES
  query,          \* context.get_user_input()
  hasMessage,     \* context.message is set
  entry,          \* the execute the handler called; "none": no request
  rpc,            \* position in QueryRouter.execute
  selected,       \* QueryRouter.execute's selected_executor
  epc,            \* position in the specialist executor's execute
  full_response,  \* the executor's accumulated output
  exc,            \* str(e) of the exception being handled or raised
  pulls,          \* items the agent's source has been asked for
  queue,          \* the events enqueued on the task's event queue
  cancelCalls,    \* calls of cancel
  cancelRaised,   \* cancel calls that raised
  cancelEarly,    \* cancel was called before execute ended or sent a final status
  cancelLate,     \* cancel was called after a completed final status
  srcFrags,       \* the non-empty fragments the source has yielded
  srcEnd,         \* how the source ended: "no", "done" or "raised"
  agents,         \* MultiFileAgentOrchestrator.agents: name -> adapter
  agent_configs,  \* MultiFileAgentOrchestrator.agent_configs: name -> config
  lastRegister,   \* the last call of register_file_agent and how it ended
  streamQuery,    \* the query of a CodingAgent.stream call read to its end
  spc,            \* position in CodingAgent.stream; "none": no such call
  chunks,         \* chunks that call has taken from model.astream
  yielded,        \* the events that call has yielded
  streamRaised,   \* that call has raised to its consumer
  command,        \* the request of a command-style executor's execute call
  cpc,            \* position in that execute; "none": no such call
  messages,       \* the agent text messages that call has enqueued
  generated,      \* the images generate_image_tool has returned an id for
  lastCache,      \* the InMemoryCache the last generate_image_tool call filled
  lastGenerate,   \* what the last generate_image_tool call returned
  lastGet         \* the last get_image_data call and its result

vars ==
  <<query, hasMessage, entry, rpc, selected, epc, full_response, exc, pulls,
    queue, cancelCalls, cancelRaised, cancelEarly, cancelLate, srcFrags, srcEnd,
    agents, agent_configs, lastRegister,
    streamQuery, spc, chunks, yielded, streamRaised,
    command, cpc, messages, generated, lastCache, lastGenerate, lastGet>>

registryVars == <<agents, agent_configs, lastRegister>>

streamVars == <<streamQuery, spc, chunks, yielded, streamRaised>>

commandVars == <<command, cpc, messages>>

cacheVars == <<generated, lastCache, lastGenerate, lastGet>>

\* The state of the calls that are not part of a task's execute.
sideVars == <<streamVars, commandVars, cacheVars>>

taskVars ==
  <<query, hasMessage, entry, rpc, selected, epc, full_response, exc, pulls,
    queue, cancelCalls, cancelRaised, cancelEarly, cancelLate, srcFrags, srcEnd>>

inputVars == <<query, hasMessage, entry>>

cancelVars == <<cancelCalls, cancelRaised, cancelEarly, cancelLate>>

sourceVars == <<pulls, srcFrags, srcEnd>>

\* The specialist executor whose execute runs for task t.
Running(t) == IF entry[t] = "router" THEN selected[t] ELSE entry[t]

Finals(t) == {i \in 1..Len(queue[t]) : queue[t][i].final}

\* The task's top-level execute has returned or raised.
Ended(t) ==
  IF entry[t] = "router" THEN rpc[t] \in {"returned", "raised"}
  ELSE epc[t] \in {"returned", "raised"}

Raised(t) ==
  IF entry[t] = "router" THEN rpc[t] = "raised" ELSE epc[t] = "raised"

Enqueue(t, ev) == queue' = [queue EXCEPT ![t] = Append(@, ev)]

\* The state after construction: the tasks in `active` have a request from
\* `qs` and an entry point from `es`; the others have none.
InitWith(active, qs, es) ==
  /\ \E f \in [active -> Requests(qs)] :
       /\ query = [t \in Tasks |-> IF t \in active THEN f[t].query ELSE <<>>]
       /\ hasMessage = [t \in Tasks |-> IF t \in active THEN f[t].hasMessage ELSE FALSE]
  /\ entry \in {e \in [Tasks -> es \cup {"none"}] :
                  \A t \in Tasks : e[t] = "none" <=> t \notin active}
  /\ rpc = [t \in Tasks |-> IF entry[t] = "router" THEN "start" ELSE "none"]
  /\ epc = [t \in Tasks |-> IF entry[t] \in Executors THEN "entry" ELSE "idle"]
  /\ selected = [t \in Tasks |-> "none"]
  /\ full_response = [t \in Tasks |-> <<>>]
  /\ exc = [t \in Tasks |-> <<>>]
  /\ pulls = [t \in Tasks |-> 0]
  /\ queue = [t \in Tasks |-> <<>>]
  /\ cancelCalls = [t \in Tasks |-> 0]
  /\ cancelRaised = [t \in Tasks |-> 0]
  /\ cancelEarly = [t \in Tasks |-> FALSE]
  /\ cancelLate = [t \in Tasks |-> FALSE]
  /\ srcFrags = [t \in Tasks |-> <<>>]
  /\ srcEnd = [t \in Tasks |-> "no"]
  /\ agents = <<>>
  /\ agent_configs = <<>>
  /\ lastRegister = NoRegister

\* No CodingAgent.stream call is followed on its own.
StreamIdle ==
  /\ streamQuery = <<>>
  /\ spc = "none"
  /\ chunks = 0
  /\ yielded = <<>>
  /\ streamRaised = FALSE

\* No command-style execute call is followed.
CommandIdle ==
  /\ command = [executor |-> "none", hasMessage |-> FALSE, name |-> "none", fields |-> 0]
  /\ cpc = "none"
  /\ messages = <<>>

\* No image has been generated or asked for.
CacheIdle ==
  /\ generated = <<>>
  /\ lastCache = <<>>
  /\ lastGenerate = "none"
  /\ lastGet = [called |-> FALSE]

SideIdle == StreamIdle /\ CommandIdle /\ CacheIdle

Init == InitWith({"t1"}, Queries, Entries) /\ SideIdle

RouteInit ==
  InitWith({"t1"}, RouteQueries \cup ScenarioQueries, {"router"}) /\ SideIdle

\* ------------------------------------------------------------------ router
\* QueryRouter.execute, lines 36-48 and 58-76: the guard's error artifact, or
\* the selection and the call of the selected executor.
RouterCheck(t) ==
  /\ rpc[t] = "start"
  /\ \/ /\ (query[t] = <<>> \/ ~hasMessage[t])
        /\ Enqueue(t, ArtifactEvent(t, "error", NoValidQueryText))
        /\ rpc' = [rpc EXCEPT ![t] = "guard_status"]
        /\ UNCHANGED <<selected, epc>>
     \/ /\ ~(query[t] = <<>> \/ ~hasMessage[t])
        /\ selected' = [selected EXCEPT ![t] = SelectExecutor(query[t])]
        /\ epc' = [epc EXCEPT ![t] = "entry"]
        /\ rpc' = [rpc EXCEPT ![t] = "await_exec"]
        /\ UNCHANGED queue
  /\ UNCHANGED <<sideVars, registryVars, inputVars, full_response, exc, cancelVars, sourceVars>>

\* A guard that raises after its failed status.
RouterGuardStatusRaises(t) ==
  /\ rpc[t] = "guard_status"
  /\ Enqueue(t, StatusEvent(t, "failed"))
  /\ rpc' = [rpc EXCEPT ![t] = "raised"]
  /\ UNCHANGED <<sideVars, registryVars, inputVars, selected, epc, full_response, exc,
                 cancelVars, sourceVars>>

\* Lines 49-56: the failed final status, then return.
RouterGuardStatus(t) ==
  /\ rpc[t] = "guard_status"
  /\ Enqueue(t, StatusEvent(t, "failed"))
  /\ rpc' = [rpc EXCEPT ![t] = "returned"]
  /\ UNCHANGED <<sideVars, registryVars, inputVars, selected, epc, full_response, exc, cancelVars, sourceVars>>

\* A router that calls the executor again after it has raised.
RouterAwaitRetry(t) ==
  /\ rpc[t] = "await_exec"
  /\ \/ /\ epc[t] = "returned"
        /\ rpc' = [rpc EXCEPT ![t] = "returned"]
        /\ UNCHANGED epc
     \/ /\ epc[t] = "raised"
        /\ epc' = [epc EXCEPT ![t] = "entry"]
        /\ UNCHANGED rpc
  /\ UNCHANGED <<sideVars, registryVars, inputVars, selected, queue, full_response, exc,
                 cancelVars, sourceVars>>

\* Lines 75-87: the awaited executor returns, or raises and the handler
\* enqueues the error artifact.
RouterAwait(t) ==
  /\ rpc[t] = "await_exec"
  /\ \/ /\ epc[t] = "returned"
        /\ rpc' = [rpc EXCEPT ![t] = "returned"]
        /\ UNCHANGED queue
     \/ /\ epc[t] = "raised"
        /\ Enqueue(t, ArtifactEvent(t, "error", ErrorPrefix \o exc[t]))
        /\ rpc' = [rpc EXCEPT ![t] = "except_status"]
  /\ UNCHANGED <<sideVars, registryVars, inputVars, selected, epc, full_response, exc, cancelVars, sourceVars>>

\* Lines 88-95: the failed final status, then the exception is raised again.
RouterExceptStatus(t) ==
  /\ rpc[t] = "except_status"
  /\ Enqueue(t, StatusEvent(t, "failed"))
  /\ rpc' = [rpc EXCEPT ![t] = "raised"]
  /\ UNCHANGED <<sideVars, registryVars, inputVars, selected, epc, full_response, exc, cancelVars, sourceVars>>

\* ------------------------------------------------------------------ executor
\* TravelPlannerAgentExecutor.execute lines 20-29, CodingAgentExecutor.execute
\* lines 102-109: the guard raises before the try block; otherwise the
\* accumulator is reset and the stream is opened.
ExecEntry(t) ==
  /\ epc[t] = "entry"
  /\ \/ /\ (query[t] = <<>> \/ ~hasMessage[t])
        /\ exc' = [exc EXCEPT ![t] = NoMessageText]
        /\ epc' = [epc EXCEPT ![t] = "raised"]
        /\ UNCHANGED full_response
     \/ /\ ~(query[t] = <<>> \/ ~hasMessage[t])
        /\ full_response' = [full_response EXCEPT ![t] = <<>>]
        /\ epc' = [epc EXCEPT ![t] = "loop"]
        /\ UNCHANGED exc
  /\ UNCHANGED <<sideVars, registryVars, inputVars, rpc, selected, queue, cancelVars, sourceVars>>

\* A test that skips nothing.
IsSkippedNever(ev) == FALSE

\* A test that skips every event without content.
IsSkippedEmpty(ev) == ev.content = <<>>

\* Lines 31/111: `not event.get('content') and not event.get('done')`.
IsSkipped(ev) == ev.content = <<>> /\ ~ev.done

\* The record of what the source has done, kept for the properties.
NoteSource(t, o) ==
  /\ pulls' = [pulls EXCEPT ![t] = IF o.kind = "yield" THEN @ + 1 ELSE @]
  /\ srcFrags' = [srcFrags EXCEPT ![t] =
                    IF o.kind = "yield" /\ o.content # <<>>
                    THEN Append(@, o.content) ELSE @]
  /\ srcEnd' = [srcEnd EXCEPT ![t] =
                  IF o.kind = "raise" THEN "raised"
                  ELSE IF o.kind = "stop" \/ o.done THEN "done" ELSE @]

\* An accumulator that keeps the last fragment only.
AccumulateLast(full, content) == content

\* Lines 36/116: full_response += event['content']
Accumulate(full, content) == full \o content

\* A loop whose accumulator is an attribute of the shared executor instance:
\* every task's accumulated output receives the fragment.
ExecLoopShared(t) ==
  /\ epc[t] = "loop"
  /\ \E o \in SourceOutcomes(Running(t), pulls[t]) :
       LET ev == AgentStream(Running(t), o) IN
       /\ NoteSource(t, o)
       /\ \/ /\ ev.kind = "skip" \/ (ev.kind = "yield" /\ IsSkipped(ev))
             /\ UNCHANGED <<epc, full_response, exc, queue>>
          \/ /\ ev.kind = "yield" /\ ~IsSkipped(ev)
             /\ full_response' = [u \in Tasks |-> full_response[u] \o ev.content]
             /\ Enqueue(t, ArtifactEvent(t, "current_result", ev.content))
             /\ epc' = [epc EXCEPT ![t] = IF ev.done THEN "after_loop" ELSE "loop"]
             /\ UNCHANGED exc
          \/ /\ ev.kind = "stop"
             /\ epc' = [epc EXCEPT ![t] = "after_loop"]
             /\ UNCHANGED <<full_response, exc, queue>>
          \/ /\ ev.kind = "raise"
             /\ exc' = [exc EXCEPT ![t] = ev.msg]
             /\ epc' = [epc EXCEPT ![t] = "except"]
             /\ UNCHANGED <<full_response, queue>>
  /\ UNCHANGED <<sideVars, registryVars, inputVars, rpc, selected, cancelVars>>

\* One turn of `async for event in self.agent.stream(query)` (travel lines
\* 30-48, coding lines 110-127): the next event is skipped, or accumulated and
\* enqueued as current_result, ending the loop when flagged done; the stream's
\* end leaves the loop; its error enters the except block (lines 72/150).
ExecLoop(t) ==
  /\ epc[t] = "loop"
  /\ \E o \in SourceOutcomes(Running(t), pulls[t]) :
       LET ev == AgentStream(Running(t), o) IN
       /\ NoteSource(t, o)
       /\ \/ /\ ev.kind = "skip" \/ (ev.kind = "yield" /\ IsSkipped(ev))
             /\ UNCHANGED <<epc, full_response, exc, queue>>
          \/ /\ ev.kind = "yield" /\ ~IsSkipped(ev)
             /\ full_response' = [full_response EXCEPT ![t] = Accumulate(@, ev.content)]
             /\ Enqueue(t, ArtifactEvent(t, "current_result", ev.content))
             /\ epc' = [epc EXCEPT ![t] = IF ev.done THEN "after_loop" ELSE "loop"]
             /\ UNCHANGED exc
          \/ /\ ev.kind = "stop"
             /\ epc' = [epc EXCEPT ![t] = "after_loop"]
             /\ UNCHANGED <<full_response, exc, queue>>
          \/ /\ ev.kind = "raise"
             /\ exc' = [exc EXCEPT ![t] = ev.msg]
             /\ epc' = [epc EXCEPT ![t] = "except"]
             /\ UNCHANGED <<full_response, queue>>
  /\ UNCHANGED <<sideVars, registryVars, inputVars, rpc, selected, cancelVars>>

\* An executor that sends no consolidated artifact.
FinalResultEventsNone(t, full) == <<>>

\* Lines 51-61 / 129-139: the consolidated artifact, when there is output.
FinalResultEvents(t, full) ==
  IF full # <<>> THEN <<ArtifactEvent(t, "final_result", full)>> ELSE <<>>

\* Lines 51-69 / 129-147 up to the next await: the final_result artifact is
\* enqueued, or with no output the completed status is.
ExecAfterLoop(t) ==
  /\ epc[t] = "after_loop"
  /\ LET fin == FinalResultEvents(t, full_response[t]) IN
       IF fin # <<>>
       THEN /\ queue' = [queue EXCEPT ![t] = @ \o fin]
            /\ epc' = [epc EXCEPT ![t] = "status"]
       ELSE /\ Enqueue(t, StatusEvent(t, "completed"))
            /\ epc' = [epc EXCEPT ![t] = "returned"]
  /\ UNCHANGED <<sideVars, registryVars, inputVars, rpc, selected, full_response, exc, cancelVars, sourceVars>>

\* A completed status followed by an error inside the try block.
ExecStatusRaises(t) ==
  /\ epc[t] = "status"
  /\ Enqueue(t, StatusEvent(t, "completed"))
  /\ exc' = [exc EXCEPT ![t] = StreamErrorText]
  /\ epc' = [epc EXCEPT ![t] = "except"]
  /\ UNCHANGED <<sideVars, registryVars, inputVars, rpc, selected, full_response, cancelVars,
                 sourceVars>>

\* Lines 63-70 / 141-148: the completed final status, then return.
ExecStatus(t) ==
  /\ epc[t] = "status"
  /\ Enqueue(t, StatusEvent(t, "completed"))
  /\ epc' = [epc EXCEPT ![t] = "returned"]
  /\ UNCHANGED <<sideVars, registryVars, inputVars, rpc, selected, full_response, exc, cancelVars, sourceVars>>

\* Lines 72-82 / 150-160: the error artifact of the except block.
ExecExcept(t) ==
  /\ epc[t] = "except"
  /\ Enqueue(t, ArtifactEvent(t, "error", ErrorPrefix \o exc[t]))
  /\ epc' = [epc EXCEPT ![t] = "except_status"]
  /\ UNCHANGED <<sideVars, registryVars, inputVars, rpc, selected, full_response, exc, cancelVars, sourceVars>>

\* Lines 83-90 / 161-168: the failed final status, then the exception is
\* raised again.
ExecExceptStatus(t) ==
  /\ epc[t] = "except_status"
  /\ Enqueue(t, StatusEvent(t, "failed"))
  /\ epc' = [epc EXCEPT ![t] = "raised"]
  /\ UNCHANGED <<sideVars, registryVars, inputVars, rpc, selected, full_response, exc, cancelVars, sourceVars>>

\* ------------------------------------------------------------------ cancel
\* A cancel that emits the canceled terminal status.
CancelEventsCanceled(t) == <<StatusEvent(t, "canceled")>>

\* A cancel that returns without raising.
CancelSilent(t) ==
  /\ entry[t] # "none"
  /\ cancelCalls[t] < MaxCancels
  /\ cancelCalls' = [cancelCalls EXCEPT ![t] = @ + 1]
  /\ cancelEarly' = [cancelEarly EXCEPT ![t] = @ \/ (Finals(t) = {} /\ ~Ended(t))]
  /\ cancelLate' = [cancelLate EXCEPT ![t] =
                      @ \/ \E i \in Finals(t) : queue[t][i].state = "completed"]
  /\ UNCHANGED <<sideVars, registryVars, inputVars, rpc, selected, epc, full_response, exc,
                 sourceVars, queue, cancelRaised>>

\* The events cancel enqueues before it raises: none.
CancelEvents(t) == <<>>

\* QueryRouter.cancel lines 97-99, and the executors' cancel (travel lines
\* 93-95, coding lines 170-172): a warning is logged and
\* Exception('Cancel not supported') is raised, at any time of the task.
Cancel(t) ==
  /\ entry[t] # "none"
  /\ cancelCalls[t] < MaxCancels
  /\ queue' = [queue EXCEPT ![t] = @ \o CancelEvents(t)]
  /\ cancelCalls' = [cancelCalls EXCEPT ![t] = @ + 1]
  /\ cancelRaised' = [cancelRaised EXCEPT ![t] = @ + 1]
  /\ cancelEarly' = [cancelEarly EXCEPT ![t] = @ \/ (Finals(t) = {} /\ ~Ended(t))]
  /\ cancelLate' = [cancelLate EXCEPT ![t] =
                      @ \/ \E i \in Finals(t) : queue[t][i].state = "completed"]
  /\ UNCHANGED <<sideVars, registryVars, inputVars, rpc, selected, epc, full_response, exc, sourceVars>>

\* ------------------------------------------------------------------ coding stream
\* CodingAgent.stream lines 52-57: for an empty query the one event
\* 'Error: No query provided.' flagged done, then return; otherwise the try
\* block is entered.
StreamStart ==
  /\ spc = "start"
  /\ IF streamQuery = <<>>
     THEN /\ yielded' = Append(yielded, [content |-> NoQueryText, done |-> TRUE])
          /\ spc' = "ended"
     ELSE /\ yielded' = yielded
          /\ spc' = "loop"
  /\ UNCHANGED <<taskVars, registryVars, commandVars, cacheVars, streamQuery,
                 chunks, streamRaised>>

\* Lines 79-93: one turn of the loop over model.astream, whose chunk is
\* yielded or passed over; the end of the model's stream and its error each
\* give the last event, after which the generator is exhausted.
StreamStep ==
  /\ spc = "loop"
  /\ \E o \in ModelOutcomes(chunks) :
       LET ev == CodingStream(o) IN
       /\ chunks' = IF o.kind = "yield" THEN chunks + 1 ELSE chunks
       /\ yielded' = IF ev.kind = "yield"
                     THEN Append(yielded, [content |-> ev.content, done |-> ev.done])
                     ELSE yielded
       /\ streamRaised' = (ev.kind = "raise")
       /\ spc' = IF o.kind = "yield" THEN "loop" ELSE "ended"
  /\ UNCHANGED <<taskVars, registryVars, commandVars, cacheVars, streamQuery>>

\* ------------------------------------------------------------------ commands
\* The command-style executors: TripPlannerAgentExecutor ("trip") and
\* TextProcessorExecutor ("text"). A request is its executor, whether the
\* context has a message, and the message text as its first colon-separated
\* field and the number of its fields.
TripCommands == {"PLAN", "RECOMMEND", "BUDGET", "TIPS", "MODIFY"}

TextCommands == {"PROCESS_TEXT", "ANALYZE_TEXT", "SEARCH_TEXT", "CREATE_TEXT"}

Commands ==
  {c \in [executor : {"trip", "text"}, hasMessage : BOOLEAN,
          name : TripCommands \cup TextCommands \cup {"hello"},
          fields : 1..MaxFields] :
     ~c.hasMessage => (c.name = "hello" /\ c.fields = 1)}

\* message_content.startswith(name + ":")
CommandIs(c, name) == c.name = name /\ c.fields >= 2

\* len(text.split(":", maxsplit)) for a text of n fields.
SplitCount(n, maxsplit) == IF n <= maxsplit + 1 THEN n ELSE maxsplit + 1

\* The handler execute dispatches to.
Handler(c) ==
  IF c.executor = "trip"
  THEN IF \E n \in TripCommands : CommandIs(c, n) THEN c.name ELSE "general"
  ELSE IF \E n \in TextCommands : CommandIs(c, n) THEN c.name ELSE "help"

\* The handlers' `if len(parts) < k` tests.
UsageError(c) ==
  LET h == Handler(c) IN
    \/ h = "PLAN" /\ SplitCount(c.fields, 3) < 3
    \/ h = "RECOMMEND" /\ SplitCount(c.fields, 2) < 2
    \/ h = "BUDGET" /\ SplitCount(c.fields, 2) < 3
    \/ h = "SEARCH_TEXT" /\ c.fields - 1 < 2

\* What a handler does past its usage test: the file it reads is missing,
\* its work succeeds, or its work (the HTTP request, the file access) raises;
\* the help text needs no work.
HandlerOutcomes(h) ==
  IF h = "help" THEN {"help"}
  ELSE (IF h \in {"PROCESS_TEXT", "ANALYZE_TEXT", "SEARCH_TEXT"}
        THEN {"not_found"} ELSE {}) \cup {"result", "raise"}

\* execute up to the try block (agent.py lines 47-52, text_agent.py lines
\* 21-26): context.message.parts is read; without a message that raises
\* AttributeError.
CommandExecute ==
  /\ cpc = "start"
  /\ cpc' = IF command.hasMessage THEN "handler" ELSE "raised"
  /\ UNCHANGED <<taskVars, registryVars, streamVars, cacheVars, command, messages>>

\* The dispatched handler: its usage message, its file-not-found message or
\* its result is enqueued, or it raises into execute's except block.
CommandHandler ==
  /\ cpc = "handler"
  /\ IF UsageError(command)
     THEN /\ messages' = Append(messages, "usage")
          /\ cpc' = "returned"
     ELSE \E out \in HandlerOutcomes(Handler(command)) :
            /\ messages' = IF out = "raise" THEN messages ELSE Append(messages, out)
            /\ cpc' = IF out = "raise" THEN "except" ELSE "returned"
  /\ UNCHANGED <<taskVars, registryVars, streamVars, cacheVars, command>>

\* The except block (agent.py lines 69-72, text_agent.py lines 38-41).
CommandExcept ==
  /\ cpc = "except"
  /\ messages' = Append(messages, "error")
  /\ cpc' = "returned"
  /\ UNCHANGED <<taskVars, registryVars, streamVars, cacheVars, command>>

\* ------------------------------------------------------------------ image cache
Sessions == {"s1", "s2"}

\* The bytes of the images the model may return.
ImageBytes == {"img1", "img2"}

\* InMemoryCache(): a new object whose cache is the empty dict.
InMemoryCache == <<>>

\* InMemoryCache.get: dict.get, None for a missing key.
CacheGet(cache, key) == IF HasKey(cache, key) THEN DictGet(cache, key) ELSE "None"

\* InMemoryCache.set
CacheSet(cache, key, value) == DictSet(cache, key, value)

\* Imagedata(bytes=base64.b64encode(data).decode('utf-8'), mime_type=...,
\* name='generated_image.png', id=uuid4().hex)
Imagedata(id, data) ==
  [id |-> id, name |-> "generated_image.png", mime_type |-> "image/png",
   bytes |-> <<"base64", data>>, error |-> "None"]

\* Imagedata(error='Error generating image, please try again.')
ErrorImagedata ==
  [id |-> "None", name |-> "None", mime_type |-> "None", bytes |-> "None",
   error |-> "Error generating image, please try again."]

\* generate_image_tool(prompt, session_id): an empty prompt raises
\* ValueError; a failed model call, and a response without an image, return
\* -999999999; an image is stored under a new id in the session's dict of the
\* cache object made at line 52, and its id is returned. The reference image
\* looked up in lines 63-80 only adds to what the model is sent.
generate_image_tool(prompt, session_id) ==
  /\ Len(generated) < MaxImages
  /\ \/ /\ prompt = ""
        /\ lastGenerate' = <<"raise", "ValueError">>
        /\ UNCHANGED <<generated, lastCache>>
     \/ /\ prompt # ""
        /\ lastGenerate' = <<"int", -999999999>>
        /\ UNCHANGED <<generated, lastCache>>
     \/ /\ prompt # ""
        /\ \E bytes \in ImageBytes :
             LET cache == InMemoryCache
                 data == Imagedata(<<"id", Len(generated) + 1>>, bytes)
                 session_data == CacheGet(cache, session_id)
             IN  /\ lastCache' =
                      IF session_data = "None"
                      THEN CacheSet(cache, session_id, DictSet(<<>>, data.id, data))
                      ELSE CacheSet(cache, session_id, DictSet(session_data, data.id, data))
                 /\ generated' = Append(generated,
                                        [session |-> session_id, id |-> data.id, data |-> data])
                 /\ lastGenerate' = data.id
  /\ UNCHANGED <<taskVars, registryVars, streamVars, commandVars, lastGet>>

\* ImageGenerationAgent.get_image_data(session_id, image_key): the session's
\* dict is looked up in the cache object made at line 208; subscripting None
\* raises TypeError, a missing key gives the error Imagedata.
get_image_data(session_id, image_key) ==
  /\ LET cache == InMemoryCache
         session_data == CacheGet(cache, session_id)
     IN  lastGet' =
           [called |-> TRUE, session |-> session_id, key |-> image_key,
            raised |-> IF session_data = "None" THEN "TypeError" ELSE "none",
            result |-> IF session_data = "None" THEN "none"
                       ELSE IF HasKey(session_data, image_key)
                            THEN DictGet(session_data, image_key)
                            ELSE ErrorImagedata]
  /\ UNCHANGED <<taskVars, registryVars, streamVars, commandVars, generated,
                 lastCache, lastGenerate>>

\* ------------------------------------------------------------------ registration
\* MultiFileAgentOrchestrator.register_file_agent (and
\* OpenAIMultiAgentOrchestrator.register_openai_agent, of the same shape): the
\* adapter is built and stored under config.name, and so is the config; the
\* call returns. lastRegister keeps what the call found and how it ended.
register_file_agent(config, executor) ==
  /\ agents' = DictSet(agents, config.name, Adapter(config, executor))
  /\ agent_configs' = DictSet(agent_configs, config.name, config)
  /\ lastRegister' =
       [called |-> TRUE, config |-> config,
        duplicate |-> HasKey(agent_configs, config.name),
        previous |-> IF HasKey(agent_configs, config.name)
                     THEN DictGet(agent_configs, config.name) ELSE config,
        raised |-> "none"]
  /\ UNCHANGED <<taskVars, sideVars>>

\* ------------------------------------------------------------------ behaviours
Next ==
  \E t \in Tasks :
    \/ RouterCheck(t)
    \/ RouterGuardStatus(t)
    \/ RouterAwait(t)
    \/ RouterExceptStatus(t)
    \/ ExecEntry(t)
    \/ ExecLoop(t)
    \/ ExecAfterLoop(t)
    \/ ExecStatus(t)
    \/ ExecExcept(t)
    \/ ExecExceptStatus(t)
    \/ Cancel(t)

Spec == Init /\ [][Next]_vars

\* The steps of task t's execute: every action but the caller's cancel.
Run(t) ==
  \/ RouterCheck(t)
  \/ RouterGuardStatus(t)
  \/ RouterAwait(t)
  \/ RouterExceptStatus(t)
  \/ ExecEntry(t)
  \/ ExecLoop(t)
  \/ ExecAfterLoop(t)
  \/ ExecStatus(t)
  \/ ExecExcept(t)
  \/ ExecExceptStatus(t)

\* The event loop resumes an execute coroutine whenever it can go on: each
\* task's execute keeps taking steps until it has returned or raised.
FairSpec == Spec /\ \A t \in Tasks : WF_vars(Run(t))

\* Two requests on the same router and the same travel executor, interleaved
\* at every await.
ConcurrentQueries == {<<>>, <<"t","r","i","p">>}

ConcurrentInit == InitWith(Tasks, ConcurrentQueries, {"router"}) /\ SideIdle

ConcurrentNext ==
  \E t \in Tasks : Run(t) /\ pulls'[t] <= MaxConcurrentEvents

ConcurrentSpec == ConcurrentInit /\ [][ConcurrentNext]_vars

\* Routing alone, over the request texts of RouteQueries.
RouteNext == \E t \in Tasks : RouterCheck(t)

RouteSpec == RouteInit /\ [][RouteNext]_vars

\* One CodingAgent.stream call, its events read until it is exhausted.
CodingStreamInit ==
  /\ InitWith({}, Queries, Entries)
  /\ streamQuery \in Queries
  /\ spc = "start"
  /\ chunks = 0
  /\ yielded = <<>>
  /\ streamRaised = FALSE
  /\ CommandIdle
  /\ CacheIdle

CodingStreamNext == StreamStart \/ StreamStep

CodingStreamSpec == CodingStreamInit /\ [][CodingStreamNext]_vars

\* One execute call of a command-style executor.
CommandInit ==
  /\ InitWith({}, Queries, Entries)
  /\ StreamIdle
  /\ CacheIdle
  /\ command \in Commands
  /\ cpc = "start"
  /\ messages = <<>>

CommandNext == CommandExecute \/ CommandHandler \/ CommandExcept

CommandSpec == CommandInit /\ [][CommandNext]_vars

\* Any sequence of generate_image_tool and get_image_data calls.
ImageInit ==
  /\ InitWith({}, Queries, Entries)
  /\ SideIdle

ImageNext ==
  \/ \E prompt \in {"", "a cat"}, session_id \in Sessions :
       generate_image_tool(prompt, session_id)
  \/ \E session_id \in Sessions,
        image_key \in {generated[i].id : i \in 1..Len(generated)} \cup {<<"id", 0>>} :
       get_image_data(session_id, image_key)

ImageSpec == ImageInit /\ [][ImageNext]_vars

\* Registration alone: any sequence of register_file_agent calls on a new
\* orchestrator.
RegistryInit == InitWith({}, Queries, Entries) /\ SideIdle

RegistryNext ==
  \E config \in FileAgentConfigs :
    register_file_agent(config, <<config.name, "_executor">>)

RegistrySpec == RegistryInit /\ [][RegistryNext]_vars

\* ------------------------------------------------------------------ properties
Partial(t, text) == ArtifactEvent(t, "current_result", text)

Consolidated(t, text) == ArtifactEvent(t, "final_result", text)

ErrorNotice(t, msg) == ArtifactEvent(t, "error", ErrorPrefix \o msg)

IsErrorNotice(ev) == ev.kind = "artifact" /\ ev.name = "error"

\* The texts of the partial results in a queue, concatenated in order.
RECURSIVE PartialText(_)
PartialText(q) ==
  IF q = <<>> THEN <<>>
  ELSE (IF Head(q).kind = "artifact" /\ Head(q).name = "current_result"
        THEN Head(q).text ELSE <<>>) \o PartialText(Tail(q))

ConsolidatedAt(t) ==
  {i \in 1..Len(queue[t]) :
     queue[t][i].kind = "artifact" /\ queue[t][i].name = "final_result"}

HasFinal(t, state) == \E i \in Finals(t) : queue[t][i].state = state

\* C1: a task's queue holds at most one final status event, and it is the
\* last event of the queue.
C1_OneFinalAndLast ==
  \A t \in Tasks :
    /\ Cardinality(Finals(t)) <= 1
    /\ \A i \in Finals(t) : i = Len(queue[t])

\* C2: when the called execute (the router's or a specialist executor's) has
\* returned or raised, a final status event is in the task's queue.
C2_FinalBeforeEnd ==
  \A t \in Tasks : Ended(t) => Finals(t) # {}

\* C3: when the specialist's underlying output stream has failed and the call
\* has ended, every final status is failed and follows an error notice, and
\* there is one.
C3_StreamFailureIsFailed ==
  \A t \in Tasks :
    (srcEnd[t] = "raised" /\ Ended(t)) =>
      /\ Finals(t) # {}
      /\ \A i \in Finals(t) :
           /\ queue[t][i].state = "failed"
           /\ i > 1
           /\ IsErrorNotice(queue[t][i - 1])

\* C4: a request whose specialist's stream failed never ends with execute
\* raising to its caller.
C4_FailureAbsorbed ==
  \A t \in Tasks : srcEnd[t] = "raised" => ~Raised(t)

C6_CompletionWins ==
  [][\A t \in Tasks : HasFinal(t, "completed") => queue'[t] = queue[t]]_vars

\* A cancel request made after the completed final status.
C6_Witness ==
  \E t \in Tasks :
    /\ cancelLate[t]
    /\ queue[t][Len(queue[t])] = StatusEvent(t, "completed")

\* C7: when the specialist has yielded a, b, c and completed without error,
\* the queue is the partials a, b, c, at most the one consolidated result, and
\* the completed final status.
C7_OrderedABC ==
  \A t \in Tasks :
    (srcFrags[t] = << <<"a">>, <<"b">>, <<"c">> >> /\ srcEnd[t] = "done" /\ Ended(t)) =>
      queue[t] \in
        { << Partial(t, <<"a">>), Partial(t, <<"b">>), Partial(t, <<"c">>),
             StatusEvent(t, "completed") >>,
          << Partial(t, <<"a">>), Partial(t, <<"b">>), Partial(t, <<"c">>),
             Consolidated(t, <<"a","b","c">>), StatusEvent(t, "completed") >> }

\* C8: when the specialist's execute has raised after its stream yielded two
\* fragments and failed, and the call has ended, the queue is those two
\* partials, one error notice and one failed final status, and the accumulated
\* output is the two fragments.
C8_FailureAfterTwo ==
  \A t \in Tasks :
    (Len(srcFrags[t]) = 2 /\ srcEnd[t] = "raised" /\ epc[t] = "raised" /\ Ended(t)) =>
      /\ queue[t] = << Partial(t, srcFrags[t][1]), Partial(t, srcFrags[t][2]),
                       ErrorNotice(t, StreamErrorText), StatusEvent(t, "failed") >>
      /\ full_response[t] = srcFrags[t][1] \o srcFrags[t][2]

\* C9 as claimed: every final status, completed or failed, of a task that
\* received output directly follows one consolidated result holding all of it.
C9_ConsolidatedBeforeTerminal ==
  \A t \in Tasks : \A i \in Finals(t) :
    PartialText(queue[t]) # <<>> =>
      /\ i > 1
      /\ queue[t][i - 1] = Consolidated(t, PartialText(queue[t]))
      /\ Cardinality(ConsolidatedAt(t)) = 1

\* C9 as amended: a completed final status of a task that received non-empty
\* output directly follows the one consolidated result, whose text is all
\* partial results in order; without output, and on a failed run, there is no
\* consolidated result.
C9_ConsolidatedOnCompleted ==
  \A t \in Tasks : \A i \in Finals(t) :
    /\ (queue[t][i].state = "completed" /\ PartialText(queue[t]) # <<>>) =>
         /\ i > 1
         /\ queue[t][i - 1] = Consolidated(t, PartialText(queue[t]))
         /\ ConsolidatedAt(t) = {i - 1}
    /\ (queue[t][i].state = "completed" /\ PartialText(queue[t]) = <<>>) =>
         ConsolidatedAt(t) = {}
    /\ queue[t][i].state = "failed" => ConsolidatedAt(t) = {}

\* A completed run of two fragments with its consolidated result.
C9_Witness ==
  \E t \in Tasks :
    /\ Len(srcFrags[t]) = 2
    /\ HasFinal(t, "completed")
    /\ ConsolidatedAt(t) # {}

Routed(t) == entry[t] = "router" /\ selected[t] # "none"

\* The matching executors all have the same priority.
SamePriority(q) ==
  \A e \in Matching(q) : \A f \in Matching(q) : Priority(e) = Priority(f)

\* C11 as claimed: the selected executor is one with a keyword in the request
\* text, and no executor with a keyword in the text has a higher priority.
C11_HighestPriority ==
  \A t \in Tasks :
    (Routed(t) /\ Matching(query[t]) # {}) =>
      /\ selected[t] \in Matching(query[t])
      /\ \A e \in Matching(query[t]) : Priority(e) <= Priority(selected[t])

\* C11 as amended: the selected executor is one with a keyword in the request
\* text, and it is the one registered first among them, whatever their
\* priorities.
C11_FirstRegisteredMatch ==
  \A t \in Tasks :
    (Routed(t) /\ Matching(query[t]) # {}) =>
      /\ selected[t] \in Matching(query[t])
      /\ \A e \in Matching(query[t]) : Rank(selected[t]) <= Rank(e)

\* A request routed to travel although an executor of higher priority has a
\* keyword in it.
C11_Witness ==
  \E t \in Tasks :
    /\ Routed(t)
    /\ selected[t] = "travel"
    /\ \E e \in Matching(query[t]) : Priority(e) > Priority(selected[t])

UpperChar(c) ==
  IF \E i \in 1..Len(LowerChars) : LowerChars[i] = c
  THEN UpperChars[CHOOSE i \in 1..Len(LowerChars) : LowerChars[i] = c]
  ELSE c

\* Two texts that differ at most in the case of their letters.
SameButCase(a, b) ==
  Len(a) = Len(b) /\ \A i \in 1..Len(a) : LowerChar(a[i]) = LowerChar(b[i])

\* Texts that differ from q at most in letter case: q in lower case, in upper
\* case, and every such text among the request texts of the routing
\* specification.
CaseVariants(q) ==
  {[i \in 1..Len(q) |-> LowerChar(q[i])], [i \in 1..Len(q) |-> UpperChar(q[i])]}
    \cup {r \in RouteQueries \cup ScenarioQueries : SameButCase(q, r)}

\* C14: the executor selected for a request text is the one the selection
\* gives for every text that differs from it only in letter case.
C14_CaseInsensitive ==
  \A t \in Tasks :
    Routed(t) => \A r \in CaseVariants(query[t]) : SelectExecutor(r) = selected[t]

\* A request whose keyword is written with a capital letter, routed by that
\* keyword to the coding executor.
C14_Witness ==
  \E t \in Tasks :
    /\ Routed(t)
    /\ \E i \in 1..Len(query[t]) : LowerChar(query[t][i]) # query[t][i]
    /\ Matching(query[t]) = {"coding"}
    /\ selected[t] = "coding"

\* C15: "help me plan a trip" is routed to the travel executor, "write a
\* program" to the coding executor, and "hello there", in which no keyword
\* occurs, to the travel executor.
C15_Scenario ==
  \A t \in Tasks :
    (entry[t] = "router" /\ hasMessage[t] /\ rpc[t] # "start") =>
      /\ query[t] = HelpMePlanATrip => selected[t] = "travel"
      /\ query[t] = WriteAProgram => selected[t] = "coding"
      /\ query[t] = HelloThere =>
           /\ selected[t] = "travel"
           /\ \A i \in 1..Len(KeywordMap) : ~Contains(query[t], KeywordMap[i].keyword)

\* "write a program" handed to the coding executor.
C15_Witness ==
  \E t \in Tasks :
    /\ query[t] = WriteAProgram
    /\ selected[t] = "coding"
    /\ epc[t] = "entry"

\* C17: a call of register_file_agent under a name already registered has
\* failed with DuplicateNameError and has left the entry of that name as it
\* was; no name has two entries.
C17_DuplicateRejected ==
  /\ lastRegister.called =>
       (lastRegister.duplicate =>
          /\ lastRegister.raised = "DuplicateNameError"
          /\ DictGet(agent_configs, lastRegister.config.name) = lastRegister.previous)
  /\ \A i \in 1..Len(agent_configs) : \A j \in 1..Len(agent_configs) :
       agent_configs[i].key = agent_configs[j].key => i = j

\* C16: nothing is delivered after a terminal status: in every queue, the
\* first final status event is the last event, every later publish having
\* been refused.
C16_ClosedAfterTerminal ==
  \A t \in Tasks :
    Finals(t) # {} =>
      LET first == CHOOSE i \in Finals(t) : \A j \in Finals(t) : i <= j
      IN  \A k \in 1..Len(queue[t]) : k <= first

\* C18: a routed request with a non-empty query has one of the registered
\* executors selected and its execute called; the selection never changes, an
\* execute is entered only by the router's one call, and an execute that has
\* returned or raised is never entered again.
C18_AssignedOnceNoRetry ==
  /\ [](\A t \in Tasks :
          (entry[t] = "router" /\ rpc[t] # "start" /\ query[t] # <<>> /\ hasMessage[t]) =>
            (selected[t] \in Executors /\ epc[t] # "idle"))
  /\ [][\A t \in Tasks :
          /\ selected[t] # "none" => selected'[t] = selected[t]
          /\ (epc'[t] = "entry" /\ epc[t] # "entry") =>
               (epc[t] = "idle" /\ rpc[t] = "start")
          /\ epc[t] \in {"returned", "raised"} => epc'[t] = epc[t]]_vars

\* A routed request whose executor failed and whose router has ended.
C18_Witness ==
  \E t \in Tasks :
    /\ entry[t] = "router"
    /\ selected[t] \in Executors
    /\ epc[t] = "raised"
    /\ srcEnd[t] = "raised"
    /\ rpc[t] = "raised"

\* C19 as claimed: when a cancel request has followed the completed final
\* status, some cancel call has not raised, and the completed status is still
\* the last event.
C19_LateCancelSilent ==
  \A t \in Tasks :
    cancelLate[t] =>
      /\ cancelRaised[t] < cancelCalls[t]
      /\ queue[t][Len(queue[t])] = StatusEvent(t, "completed")

\* C19 as amended: a cancel request after the completed final status enqueues
\* nothing and raises ('Cancel not supported').
C19_LateCancelRaises ==
  /\ [](\A t \in Tasks :
          cancelLate[t] =>
            /\ cancelRaised[t] >= 1
            /\ Finals(t) = {Len(queue[t])}
            /\ queue[t][Len(queue[t])] = StatusEvent(t, "completed"))
  /\ [][\A t \in Tasks :
          (HasFinal(t, "completed") /\ cancelCalls'[t] # cancelCalls[t]) =>
            /\ cancelRaised'[t] = cancelRaised[t] + 1
            /\ queue'[t] = queue[t]]_vars

\* A cancel request that raised after a run with output had completed and
\* its execute had returned.
C19_Witness ==
  \E t \in Tasks :
    /\ cancelLate[t]
    /\ cancelRaised[t] = cancelCalls[t]
    /\ PartialText(queue[t]) # <<>>
    /\ Ended(t) /\ ~Raised(t)

\* C20: every request leads to a final status event in its queue, and a failed
\* final status always directly follows an error artifact.
C20_EventuallyFinal ==
  /\ \A t \in Tasks : (entry[t] # "none") ~> (Finals(t) # {})
  /\ [](\A t \in Tasks : \A i \in Finals(t) :
          queue[t][i].state = "failed" => (i > 1 /\ IsErrorNotice(queue[t][i - 1])))

\* The concatenation of a sequence of texts.
RECURSIVE Concat(_)
Concat(texts) == IF texts = <<>> THEN <<>> ELSE Head(texts) \o Concat(Tail(texts))

\* What a task's own stream has produced: its source's fragments in order,
\* followed for the coding agent by the apology its stream yields when the
\* model fails.
OwnOutput(t) ==
  Concat(srcFrags[t]) \o
    (IF Running(t) = "coding" /\ srcEnd[t] = "raised"
     THEN SorryPrefix \o StreamErrorText ELSE <<>>)

\* C21: every event in a task's queue carries that task's taskId and
\* contextId, and the task's accumulated output and its consolidated result
\* are the output of its own stream.
C21_TasksIndependent ==
  \A t \in Tasks :
    /\ \A i \in 1..Len(queue[t]) :
         queue[t][i].taskId = t /\ queue[t][i].contextId = t
    /\ epc[t] \notin {"idle", "entry"} => full_response[t] = OwnOutput(t)
    /\ \A i \in ConsolidatedAt(t) : queue[t][i].text = OwnOutput(t)

\* Two requests in their streaming loops at once, each with output of its
\* own, the two outputs different.
C21_Witness ==
  /\ \A t \in Tasks : epc[t] = "loop" /\ full_response[t] # <<>>
  /\ full_response["t1"] # full_response["t2"]

\* a is an initial part of b.
IsPrefix(a, b) == Len(a) <= Len(b) /\ SubSeq(b, 1, Len(a)) = a

\* C22: once the executor has opened its stream, its accumulated output is
\* the concatenation, in order, of the texts of the partial results in the
\* task's queue; and every step leaves the accumulated output as it is or
\* extends it at the end.
C22_AccumulatedIsPartials ==
  /\ [](\A t \in Tasks :
          epc[t] \notin {"idle", "entry"} => full_response[t] = PartialText(queue[t]))
  /\ [][\A t \in Tasks : IsPrefix(full_response[t], full_response'[t])]_vars

\* An executor in its loop after two partial results with text.
C22_Witness ==
  \E t \in Tasks :
    /\ epc[t] = "loop"
    /\ Len(srcFrags[t]) = 2
    /\ Len(full_response[t]) = 2
    /\ full_response[t] = PartialText(queue[t])

\* The positions in keyword_map of the keywords that occur in the lower-cased
\* query.
Hits(q) ==
  {i \in 1..Len(KeywordMap) : Contains(Lower(q), KeywordMap[i].keyword)}

HitsOf(e, q) == {i \in Hits(q) : KeywordMap[i].executor = e}

\* C23: keyword_map lists all travel keywords, then all research keywords,
\* then all coding keywords; the selected executor is the one of the first
\* keyword in that order that occurs in the lower-cased query: travel when a
\* travel keyword occurs, else research when a research keyword occurs, else
\* coding when a coding keyword occurs, whatever the numbers of keywords.
C23_FirstKeywordWins ==
  /\ \A i \in 1..Len(KeywordMap) : \A j \in i..Len(KeywordMap) :
       Rank(KeywordMap[i].executor) <= Rank(KeywordMap[j].executor)
  /\ \A t \in Tasks :
       (Routed(t) /\ Hits(query[t]) # {}) =>
         /\ \E i \in Hits(query[t]) :
              /\ \A j \in Hits(query[t]) : i <= j
              /\ selected[t] = KeywordMap[i].executor
         /\ HitsOf("travel", query[t]) # {} => selected[t] = "travel"
         /\ (HitsOf("travel", query[t]) = {} /\ HitsOf("research", query[t]) # {}) =>
              selected[t] = "research"
         /\ (HitsOf("travel", query[t]) = {} /\ HitsOf("research", query[t]) = {}) =>
              selected[t] = "coding"

\* A request with one research keyword and two coding keywords, routed to
\* research by its first keyword in keyword_map order, 'find'.
C23_Witness ==
  \E t \in Tasks :
    /\ Routed(t)
    /\ HitsOf("travel", query[t]) = {}
    /\ Cardinality(HitsOf("research", query[t])) = 1
    /\ Cardinality(HitsOf("coding", query[t])) = 2
    /\ KeywordMap[CHOOSE i \in Hits(query[t]) : \A j \in Hits(query[t]) : i <= j].executor
         = selected[t]

\* C24: the final status events in a task's queue all carry the same state.
C24_FinalsAgree ==
  \A t \in Tasks : \A i \in Finals(t) : \A j \in Finals(t) :
    queue[t][i].state = queue[t][j].state

\* A task with two final status events, after the executor's report of its
\* failure and the router's.
C24_Witness ==
  \E t \in Tasks :
    /\ Cardinality(Finals(t)) = 2
    /\ rpc[t] = "raised"
    /\ \A i \in Finals(t) : queue[t][i].state = "failed"

\* C25: for a request to the router with an empty query or no message, no
\* executor is selected or called, the router never raises, the queue never
\* holds anything but the error artifact and then the failed final status,
\* and it holds exactly these two when the router has returned.
C25_GuardReportsOnce ==
  \A t \in Tasks :
    (entry[t] = "router" /\ (query[t] = <<>> \/ ~hasMessage[t])) =>
      /\ selected[t] = "none"
      /\ epc[t] = "idle"
      /\ rpc[t] # "raised"
      /\ IsPrefix(queue[t], << ArtifactEvent(t, "error", NoValidQueryText),
                               StatusEvent(t, "failed") >>)
      /\ rpc[t] = "returned" => Len(queue[t]) = 2
      /\ rpc[t] = "guard_status" => Len(queue[t]) = 1
      /\ rpc[t] = "start" => Len(queue[t]) = 0

\* A request without a message, reported and returned from.
C25_Witness ==
  \E t \in Tasks :
    /\ entry[t] = "router"
    /\ ~hasMessage[t]
    /\ rpc[t] = "returned"
    /\ Len(queue[t]) = 2

\* The positions of the events flagged done among those yielded.
DoneAt == {i \in 1..Len(yielded) : yielded[i].done}

\* C26: CodingAgent.stream never raises; every event before the last has
\* done false and content that is not empty; while the stream runs no event
\* is flagged done, and once it is exhausted exactly one is, the last.
C26_OneDoneLast ==
  /\ ~streamRaised
  /\ \A i \in 1..Len(yielded) :
       i < Len(yielded) => (~yielded[i].done /\ yielded[i].content # <<>>)
  /\ spc \in {"start", "loop"} => DoneAt = {}
  /\ spc = "ended" => (yielded # <<>> /\ DoneAt = {Len(yielded)})

\* A stream that yielded two chunks and then, the model failing, its apology
\* flagged done.
C26_Witness ==
  /\ spc = "ended"
  /\ Len(yielded) = 3
  /\ yielded[3] = [content |-> SorryPrefix \o StreamErrorText, done |-> TRUE]

\* The positions of the partial results in a task's queue.
PartialsAt(t) ==
  {i \in 1..Len(queue[t]) :
     queue[t][i].kind = "artifact" /\ queue[t][i].name = "current_result"}

\* C27: when the stream has given its done event or ended, the loop has been
\* left; the step that leaves the loop on a done event enqueues that event's
\* content, empty or not, as a partial result and adds it to the accumulated
\* output; and once the loop is left nothing more is taken from the stream,
\* no partial result is enqueued and the accumulated output stays.
C27_StopsAtDone ==
  /\ [](\A t \in Tasks : srcEnd[t] = "done" => epc[t] # "loop")
  /\ [][\A t \in Tasks :
          /\ (epc[t] = "loop" /\ epc'[t] = "after_loop"
                /\ (Running(t) = "coding" \/ pulls'[t] = pulls[t] + 1)) =>
               \E c \in Fragments \cup {<<>>, SorryPrefix \o StreamErrorText} :
                 /\ queue'[t] = Append(queue[t], Partial(t, c))
                 /\ full_response'[t] = full_response[t] \o c
                 /\ (Running(t) # "coding" /\ c # <<>>) =>
                      srcFrags'[t] = Append(srcFrags[t], c)
                 /\ (Running(t) # "coding" /\ c = <<>>) => srcFrags'[t] = srcFrags[t]
          /\ epc[t] \in {"after_loop", "status", "returned"} =>
               /\ pulls'[t] = pulls[t]
               /\ srcFrags'[t] = srcFrags[t]
               /\ full_response'[t] = full_response[t]
               /\ Cardinality(PartialsAt(t))' = Cardinality(PartialsAt(t))]_vars

\* A travel executor that has left its loop on a done event without content,
\* after one with content: the empty partial result is the last event.
C27_Witness ==
  \E t \in Tasks :
    /\ Running(t) = "travel"
    /\ epc[t] = "after_loop"
    /\ Len(queue[t]) = 2
    /\ queue[t][2] = Partial(t, <<>>)
    /\ full_response[t] # <<>>

\* C28: a step of the loop that takes from the stream an event with no
\* content and no done flag leaves the queue and the accumulated output as
\* they are and stays in the loop.
C28_EmptyEventSkipped ==
  [][\A t \in Tasks :
       (epc[t] = "loop" /\ pulls'[t] = pulls[t] + 1
          /\ srcFrags'[t] = srcFrags[t] /\ srcEnd'[t] = "no") =>
         /\ queue'[t] = queue[t]
         /\ full_response'[t] = full_response[t]
         /\ epc'[t] = "loop"]_vars

\* A travel executor still in its loop after two events of its stream, one
\* of them skipped, the other enqueued.
C28_Witness ==
  \E t \in Tasks :
    /\ Running(t) = "travel"
    /\ epc[t] = "loop"
    /\ pulls[t] = 2
    /\ Len(srcFrags[t]) = 1
    /\ queue[t] = <<Partial(t, srcFrags[t][1])>>

\* C29: a command-style execute never raises, never has enqueued more than
\* one message, and has enqueued exactly one when it has returned.
C29_OneMessageNoRaise ==
  /\ cpc # "raised"
  /\ Len(messages) <= 1
  /\ cpc = "returned" => Len(messages) = 1

\* C30: a get_image_data call for a session and an id that generate_image_tool
\* returned for an image of that session has not raised and has returned the
\* image data stored under that id.
C30_CacheRoundTrip ==
  lastGet.called =>
    \A i \in 1..Len(generated) :
      (generated[i].session = lastGet.session /\ generated[i].id = lastGet.key) =>
        (lastGet.raised = "none" /\ lastGet.result = generated[i].data)

====
